---- MODULE Spec2Model ----
\* Model of the Seminar 15 concurrency benchmarks:
\*   src/Seminars/15-parallel/habr.py    (specification Spec)
\*   src/Seminars/15-parallel/matmul.py  (specification SpecMatmul)
EXTENDS Integers, Sequences, FiniteSets, TLC

\* ---------------------------------------------------------------- bounds
MaxTasks == 3      \* largest --n_tasks explored
MaxPool  == 2      \* largest --pool_size explored
MaxJobs  == 3      \* largest --njobs explored

\* ---------------------------------------------------------------- state
VARIABLES
    \* habr.py
    mode,          \* args.mode
    n_tasks,       \* args.n_tasks
    pool_size,     \* args.pool_size
    fetch,         \* environment: what the network does for article id i
    pc,            \* position of the driver (main thread)
    titles,        \* the result collection `titles`
    writes,        \* history: writes[s] = units that stored into slot s, in order
    active,        \* task ids whose get_article_title call is in progress
    invocations,   \* history: invocations[i] = calls of get_article_title(i) so far
    th,            \* threads strategy: th[i] = state of the Thread of task i
    crashed,       \* threads that died from an uncaught exception
    mutex,         \* owner of the global Lock (0 = unlocked)
    starts,        \* history: starts[k] = start() calls on the k-th Thread
    joins,         \* history: joins[k] = join() calls returned on the k-th Thread
    idx,           \* loop counter of the driver's current for loop
    taskq,         \* pool: tasks submitted by map and not yet taken, <<k, id>>
    worker,        \* pool: worker[w] = <<k, id>> being run, or Idle
    value,         \* pool: MapResult._value
    number_left,   \* pool: MapResult._number_left
    success,       \* pool: MapResult._success
    returned,      \* history: task ids in the order their calls ended
    out,           \* lines printed on stdout, <<i, title>>
    \* matmul.py
    njobs_given,   \* args.njobs is not None
    njobs,         \* args.njobs
    mmode,         \* args.mode
    mpc,           \* position of matmul.py's main thread
    job,           \* job[j] = state of the j-th Thread / Process
    midx,          \* loop counter of the driver's current for loop
    mulruns,       \* matmul calls begun so far
    finished,      \* "Finished" markers printed so far
    mlog,          \* history: <<"computed", j>> and <<"Finished", j>> events, in order
    exitmsg,       \* argument of SystemExit, "" when none was raised
    \* matmul(A, B) run by the jobs of multy_thread
    A,             \* the matrix A shared by the jobs
    B,             \* the matrix B shared by the jobs
    C,             \* C[c] = a result matrix allocated by a matmul call
    ijk,           \* ijk[j] = <<i, j, k>>, the loop indices of job j's call
    \* one call of get_page
    n_attempts,    \* parameter n_attempts
    attempt,       \* iterations of the for loop completed
    gp_pc,         \* position inside get_page / get_article_title
    gp_log,        \* history: <<"get", status>>, <<"error", 0>>, <<"sleep", t>> events
    gp_page,       \* what get_page returned
    gp_title       \* what get_article_title returned

habrVars == <<mode, n_tasks, pool_size, fetch, pc, titles, writes, active,
              invocations, th, crashed, mutex, starts, joins, idx, taskq,
              worker, value, number_left, success, returned, out>>
matVars  == <<njobs_given, njobs, mmode, mpc, job, midx, mulruns, finished, mlog,
              exitmsg>>
mulVars  == <<A, B, C, ijk>>
pageVars == <<n_attempts, attempt, gp_pc, gp_log, gp_page, gp_title>>
vars     == <<habrVars, matVars, mulVars, pageVars>>

args     == <<mode, n_tasks, pool_size, fetch>>
thVars   == <<th, crashed, mutex, starts, joins>>
poolVars == <<taskq, worker, value, number_left, success>>

\* ---------------------------------------------------------------- values
NOT_FOUND == <<"NOT FOUND", 0>>     \* the string "NOT FOUND"
EMPTY     == <<"", 0>>              \* the string ""
None      == <<"None", 0>>          \* Python's None
Idle      == <<0, 0>>               \* a pool worker waiting for a task
Page(i)   == <<"page", i>>          \* text of the 200 response for article i
Exc(i)    == <<"error", i>>         \* exception raised while working on article i

Outcomes  == {"ok", "none", "error"}
Modes     == {"single", "threads", "pool", "process_pool"}

Max(a, b) == IF a >= b THEN a ELSE b

\* range(a, b) as the sequence a, a+1, ..., b-1
range(a, b) == [k \in 1..Max(b - a, 0) |-> a + k - 1]

\* [x] * n ; a non-positive n gives the empty list
Repeat(x, n) == [k \in 1..Max(n, 0) |-> x]

\* ---------------------------------------------------------------- work function
\* status code of a successful response
OK == 200

\* a requests.Response with the given status code
Response(status) == <<"response", status>>

\* get_habr_article after its get_page call: if page: return page.text,
\* else None
HabrArticle(page, i) == IF page /= None THEN Page(i) ELSE None

\* get_article_title after its get_habr_article call: "NOT FOUND" when
\* there is no article, else soup.title
ArticleTitle(article) ==
    IF article = None THEN NOT_FOUND ELSE <<"title", article[2]>>

\* get_habr_article(i), get_page summarised by fetch[i]
get_habr_article(i) ==
    HabrArticle(IF fetch[i] = "ok" THEN Response(OK) ELSE None, i)

\* get_article_title(i)
get_article_title(i) == ArticleTitle(get_habr_article(i))

\* requests.get or BeautifulSoup raises: nothing in the call chain catches it
Raises(i) == fetch[i] = "error"

\* ---------------------------------------------------------------- initial state
\* no matrix is modelled
InitMulIdle ==
    /\ A = <<>>
    /\ B = <<>>
    /\ C = <<>>
    /\ ijk = <<>>

\* get_page is summarised by fetch
InitPageIdle ==
    /\ n_attempts = 0
    /\ attempt = 0
    /\ gp_pc = "off"
    /\ gp_log = <<>>
    /\ gp_page = None
    /\ gp_title = None

InitMatIdle ==
    /\ njobs_given = FALSE
    /\ njobs = 0
    /\ mmode = "process"
    /\ mpc = "off"
    /\ job = <<>>
    /\ midx = 0
    /\ mulruns = 0
    /\ finished = 0
    /\ mlog = <<>>
    /\ exitmsg = ""

Init ==
    /\ mode \in Modes
    /\ n_tasks \in -1..MaxTasks
    /\ pool_size \in 0..MaxPool
    /\ fetch \in [1..Max(n_tasks, 0) -> Outcomes]
    /\ pc = "main"
    /\ titles = <<>>
    /\ writes = [s \in 1..Max(n_tasks, 0) |-> <<>>]
    /\ active = {}
    /\ invocations = [i \in 1..Max(n_tasks, 0) |-> 0]
    /\ th = <<>>
    /\ crashed = {}
    /\ mutex = 0
    /\ starts = <<>>
    /\ joins = <<>>
    /\ idx = 0
    /\ taskq = <<>>
    /\ worker = <<>>
    /\ value = <<>>
    /\ number_left = 0
    /\ success = TRUE
    /\ returned = <<>>
    /\ out = <<>>
    /\ InitMatIdle
    /\ InitMulIdle
    /\ InitPageIdle

\* ---------------------------------------------------------------- main
StrategyOf(m) ==
    CASE m = "single"  -> "single"
      [] m = "threads" -> "threads"
      [] m = "pool"    -> "thread_pool"
      [] OTHER         -> "process_pool"

\* main(): dispatch on args.mode; no argument is validated
main ==
    /\ pc = "main"
    /\ pc' = StrategyOf(mode)
    /\ UNCHANGED <<args, titles, writes, active, invocations, thVars, idx,
                   poolVars, returned, out>>
    /\ UNCHANGED <<matVars, mulVars, pageVars>>

\* ---------------------------------------------------------------- single
\* the ids the list comprehension of single iterates over
SingleIds == range(1, n_tasks)

\* the comprehension calls get_article_title for its next id
single_call ==
    /\ pc = "single"
    /\ active = {}
    /\ Len(titles) < Len(SingleIds)
    /\ LET i == SingleIds[Len(titles) + 1]
       IN  /\ active' = {i}
           /\ invocations' = [invocations EXCEPT ![i] = @ + 1]
    /\ UNCHANGED <<args, pc, titles, writes, thVars, idx, poolVars, returned, out>>
    /\ UNCHANGED <<matVars, mulVars, pageVars>>

\* the call returns and its result is appended, or it raises and the
\* exception leaves single and main
single_return ==
    /\ pc = "single"
    /\ \E i \in active :
        /\ active' = {}
        /\ returned' = Append(returned, i)
        /\ IF Raises(i)
           THEN /\ pc' = "aborted"
                /\ UNCHANGED <<titles, writes>>
           ELSE /\ titles' = Append(titles, get_article_title(i))
                /\ writes' = [writes EXCEPT ![Len(titles) + 1] = Append(@, 0)]
                /\ pc' = pc
    /\ UNCHANGED <<args, invocations, thVars, idx, poolVars, out>>
    /\ UNCHANGED <<matVars, mulVars, pageVars>>

\* the comprehension is exhausted
single_end ==
    /\ pc = "single"
    /\ active = {}
    /\ Len(titles) = Len(SingleIds)
    /\ pc' = "print"
    /\ idx' = 1
    /\ UNCHANGED <<args, titles, writes, active, invocations, thVars, poolVars,
                   returned, out>>
    /\ UNCHANGED <<matVars, mulVars, pageVars>>

\* ---------------------------------------------------------------- print loop
\* for i, title in enumerate(titles, start=1): print(...)
print_line ==
    /\ pc = "print"
    /\ idx <= Len(titles)
    /\ out' = Append(out, <<idx, titles[idx]>>)
    /\ idx' = idx + 1
    /\ UNCHANGED <<args, pc, titles, writes, active, invocations, thVars,
                   poolVars, returned>>
    /\ UNCHANGED <<matVars, mulVars, pageVars>>

\* the loop is exhausted and the strategy returns to main
print_end ==
    /\ pc = "print"
    /\ idx > Len(titles)
    /\ pc' = "done"
    /\ UNCHANGED <<args, titles, writes, active, invocations, thVars, idx,
                   poolVars, returned, out>>
    /\ UNCHANGED <<matVars, mulVars, pageVars>>

\* ---------------------------------------------------------------- threads
\* variant: the Thread list stops one id short
ThreadIdsOneShort == range(1, n_tasks)

\* the ids the Thread objects are created for
ThreadIds == range(1, n_tasks + 1)

\* titles = [""] * n_tasks; mutex = Lock(); one Thread per id, target
\* get_article_title
threads_init ==
    /\ pc = "threads"
    /\ titles' = Repeat(EMPTY, n_tasks)
    /\ mutex' = 0
    /\ th' = [k \in 1..Len(ThreadIds) |-> "created"]
    /\ starts' = [k \in 1..Len(ThreadIds) |-> 0]
    /\ joins' = [k \in 1..Len(ThreadIds) |-> 0]
    /\ pc' = "th_start"
    /\ idx' = 1
    /\ UNCHANGED <<args, writes, active, invocations, crashed, poolVars,
                   returned, out>>
    /\ UNCHANGED <<matVars, mulVars, pageVars>>

\* for th in threads: th.start()
th_start ==
    /\ pc = "th_start"
    /\ idx <= Len(th)
    /\ th' = [th EXCEPT ![idx] = "started"]
    /\ starts' = [starts EXCEPT ![idx] = @ + 1]
    /\ idx' = idx + 1
    /\ UNCHANGED <<args, pc, titles, writes, active, invocations, crashed,
                   mutex, joins, poolVars, returned, out>>
    /\ UNCHANGED <<matVars, mulVars, pageVars>>

th_start_end ==
    /\ pc = "th_start"
    /\ idx > Len(th)
    /\ pc' = "th_join"
    /\ idx' = 1
    /\ UNCHANGED <<args, titles, writes, active, invocations, thVars, poolVars,
                   returned, out>>
    /\ UNCHANGED <<matVars, mulVars, pageVars>>

\* a started thread calls its target, get_article_title(ThreadIds[k])
th_run(k) ==
    /\ th[k] = "started"
    /\ th' = [th EXCEPT ![k] = "running"]
    /\ active' = active \cup {ThreadIds[k]}
    /\ invocations' = [invocations EXCEPT ![ThreadIds[k]] = @ + 1]
    /\ UNCHANGED <<args, pc, titles, writes, crashed, mutex, starts, joins,
                   idx, poolVars, returned, out>>
    /\ UNCHANGED <<matVars, mulVars, pageVars>>

\* the target returns (its return value is dropped by Thread.run) or
\* raises (the thread dies, the other threads and the driver go on)
th_return(k) ==
    /\ th[k] = "running"
    /\ th' = [th EXCEPT ![k] = "terminated"]
    /\ active' = active \ {ThreadIds[k]}
    /\ returned' = Append(returned, ThreadIds[k])
    /\ crashed' = IF Raises(ThreadIds[k]) THEN crashed \cup {k} ELSE crashed
    /\ UNCHANGED <<args, pc, titles, writes, invocations, mutex, starts, joins,
                   idx, poolVars, out>>
    /\ UNCHANGED <<matVars, mulVars, pageVars>>

\* variant: join returns without waiting for the thread
JoinReturnsNoWait(t, k) == TRUE

\* variant: join waits for a state the thread never takes by itself
JoinReturnsNever(t, k) == t[k] = "joined"

\* th.join() returns once the thread has terminated
JoinReturns(t, k) == t[k] = "terminated"

\* for th in threads: th.join()
th_join ==
    /\ pc = "th_join"
    /\ idx <= Len(th)
    /\ JoinReturns(th, idx)
    /\ th' = [th EXCEPT ![idx] = IF @ = "terminated" THEN "joined" ELSE @]
    /\ joins' = [joins EXCEPT ![idx] = @ + 1]
    /\ idx' = idx + 1
    /\ UNCHANGED <<args, pc, titles, writes, active, invocations, crashed,
                   mutex, starts, poolVars, returned, out>>
    /\ UNCHANGED <<matVars, mulVars, pageVars>>

th_join_end ==
    /\ pc = "th_join"
    /\ idx > Len(th)
    /\ pc' = "print"
    /\ idx' = 1
    /\ UNCHANGED <<args, titles, writes, active, invocations, thVars, poolVars,
                   returned, out>>
    /\ UNCHANGED <<matVars, mulVars, pageVars>>

\* ---------------------------------------------------------------- pools
\* the ids handed to pool.map
PoolIds == range(1, n_tasks)

\* variant: the pool runs one worker more than asked for
PoolWorkersOneMore(processes) == 1..(processes + 1)

\* the workers of Pool(processes)
PoolWorkers(processes) == 1..processes

\* variant: results are collected in completion order
PoolStoreByCompletion(v, k, result) ==
    LET free == {j \in DOMAIN v : v[j] = None}
        j    == CHOOSE x \in free : \A y \in free : x <= y
    IN  IF free = {} THEN v ELSE [v EXCEPT ![j] = result]

\* MapResult._set for a successful task k: the result goes to position k
\* of _value, whenever the task completes
PoolStore(v, k, result) == [v EXCEPT ![k] = result]

\* with multiprocessing.dummy.Pool(pool_size) / multiprocessing.Pool(pool_size):
\* a size below 1 raises ValueError, which leaves the strategy and main
Pool ==
    /\ pc \in {"thread_pool", "process_pool"}
    /\ IF pool_size < 1
       THEN /\ pc' = "aborted"
            /\ UNCHANGED worker
       ELSE /\ pc' = "map"
            /\ worker' = [w \in PoolWorkers(pool_size) |-> Idle]
    /\ UNCHANGED <<args, titles, writes, active, invocations, thVars, idx,
                   taskq, value, number_left, success, returned, out>>
    /\ UNCHANGED <<matVars, mulVars, pageVars>>

\* pool.map(get_article_title, range(1, n_tasks)): every id is queued in
\* order, in tasks of one id each (the chunk size is 1 as long as there are
\* at most 4 * pool_size ids), and the driver waits for the MapResult
map_submit ==
    /\ pc = "map"
    /\ taskq' = [k \in 1..Len(PoolIds) |-> <<k, PoolIds[k]>>]
    /\ value' = Repeat(None, Len(PoolIds))
    /\ number_left' = Len(PoolIds)
    /\ success' = TRUE
    /\ pc' = "map_wait"
    /\ UNCHANGED <<args, titles, writes, active, invocations, thVars, idx,
                   worker, returned, out>>
    /\ UNCHANGED <<matVars, mulVars, pageVars>>

\* an idle worker takes the next task and calls get_article_title
worker_take(w) ==
    /\ pc = "map_wait"
    /\ worker[w] = Idle
    /\ taskq /= <<>>
    /\ worker' = [worker EXCEPT ![w] = Head(taskq)]
    /\ taskq' = Tail(taskq)
    /\ active' = active \cup {Head(taskq)[2]}
    /\ invocations' = [invocations EXCEPT ![Head(taskq)[2]] = @ + 1]
    /\ UNCHANGED <<args, pc, titles, writes, thVars, idx, value, number_left,
                   success, returned, out>>
    /\ UNCHANGED <<matVars, mulVars, pageVars>>

\* the call ends and the worker reports (True, result) or (False, exc);
\* MapResult._set keeps the first exception and drops later results
worker_done(w) ==
    /\ pc = "map_wait"
    /\ worker[w] /= Idle
    /\ LET k == worker[w][1]
           i == worker[w][2]
       IN  /\ active' = active \ {i}
           /\ returned' = Append(returned, i)
           /\ number_left' = number_left - 1
           /\ IF ~Raises(i) /\ success
              THEN /\ value' = PoolStore(value, k, get_article_title(i))
                   /\ writes' = [writes EXCEPT ![k] = Append(@, 0)]
                   /\ UNCHANGED success
              ELSE /\ value' = IF Raises(i) /\ success THEN Exc(i) ELSE value
                   /\ success' = (success /\ ~Raises(i))
                   /\ UNCHANGED writes
    /\ worker' = [worker EXCEPT ![w] = Idle]
    /\ UNCHANGED <<args, pc, titles, invocations, thVars, idx, taskq, out>>
    /\ UNCHANGED <<matVars, mulVars, pageVars>>

\* every task has reported: map returns the list, or raises the stored
\* exception out of the strategy and main; leaving the with block
\* terminates the pool
map_return ==
    /\ pc = "map_wait"
    /\ number_left = 0
    /\ worker' = <<>>
    /\ IF success
       THEN /\ titles' = value
            /\ pc' = "print"
            /\ idx' = 1
       ELSE /\ pc' = "aborted"
            /\ UNCHANGED <<titles, idx>>
    /\ UNCHANGED <<args, writes, active, invocations, thVars, taskq, value,
                   number_left, success, returned, out>>
    /\ UNCHANGED <<matVars, mulVars, pageVars>>

\* ---------------------------------------------------------------- habr.py
Next ==
    \/ main
    \/ single_call
    \/ single_return
    \/ single_end
    \/ threads_init
    \/ th_start
    \/ th_start_end
    \/ \E k \in DOMAIN th : th_run(k)
    \/ \E k \in DOMAIN th : th_return(k)
    \/ th_join
    \/ th_join_end
    \/ Pool
    \/ map_submit
    \/ \E w \in DOMAIN worker : worker_take(w)
    \/ \E w \in DOMAIN worker : worker_done(w)
    \/ map_return
    \/ print_line
    \/ print_end

Spec == Init /\ [][Next]_vars

\* the runs of at most MaxFairTasks tasks, with every thread, worker and the
\* driver scheduled as long as it can take a step and every call of the work
\* function coming to an end
MaxFairTasks == 3

InitFair == Init /\ n_tasks <= MaxFairTasks

SpecFair == InitFair /\ [][Next]_vars /\ WF_vars(Next)

\* ---------------------------------------------------------------- matmul.py
InitHabrIdle ==
    /\ mode = "pool"
    /\ n_tasks = 0
    /\ pool_size = 0
    /\ fetch = <<>>
    /\ pc = "off"
    /\ titles = <<>>
    /\ writes = <<>>
    /\ active = {}
    /\ invocations = <<>>
    /\ th = <<>>
    /\ crashed = {}
    /\ mutex = 0
    /\ starts = <<>>
    /\ joins = <<>>
    /\ idx = 0
    /\ taskq = <<>>
    /\ worker = <<>>
    /\ value = <<>>
    /\ number_left = 0
    /\ success = TRUE
    /\ returned = <<>>
    /\ out = <<>>

\* the state after parser.parse_args(): --njobs absent or any integer
InitMatmul ==
    /\ njobs_given \in BOOLEAN
    /\ njobs \in IF njobs_given THEN -1..MaxJobs ELSE {0}
    /\ mmode \in {"thread", "process"}
    /\ mpc = "main"
    /\ job = <<>>
    /\ midx = 0
    /\ mulruns = 0
    /\ finished = 0
    /\ mlog = <<>>
    /\ exitmsg = ""
    /\ InitHabrIdle
    /\ InitMulIdle
    /\ InitPageIdle

\* variant: only negative values are rejected
InvalidNjobsNegativeOnly(n) == n < 0

\* if args.njobs <= 0
InvalidNjobs(n) == n <= 0

\* main(): single_thread() without --njobs, SystemExit for a non-positive
\* --njobs, else the driver of the chosen mode
mat_main ==
    /\ mpc = "main"
    /\ IF ~njobs_given
       THEN /\ mpc' = "single_thread"
            /\ UNCHANGED exitmsg
       ELSE IF InvalidNjobs(njobs)
       THEN /\ mpc' = "exit"
            /\ exitmsg' = "--njobs must be a positive integer."
       ELSE /\ mpc' = IF mmode = "thread" THEN "multy_thread" ELSE "multy_process"
            /\ UNCHANGED exitmsg
    /\ UNCHANGED <<njobs_given, njobs, mmode, job, midx, mulruns, finished, mlog>>
    /\ UNCHANGED <<habrVars, mulVars, pageVars>>

\* single_thread(): matmul is called in the main thread
single_thread_call ==
    /\ mpc = "single_thread"
    /\ mulruns' = mulruns + 1
    /\ mpc' = "single_matmul"
    /\ UNCHANGED <<njobs_given, njobs, mmode, job, midx, finished, mlog, exitmsg>>
    /\ UNCHANGED <<habrVars, mulVars, pageVars>>

\* the loops of that call are over: print("Finished"), return C, main returns
single_thread_return ==
    /\ mpc = "single_matmul"
    /\ finished' = finished + 1
    /\ mlog' = mlog \o <<<<"computed", 0>>, <<"Finished", 0>>>>
    /\ mpc' = "done"
    /\ UNCHANGED <<njobs_given, njobs, mmode, job, midx, mulruns, exitmsg>>
    /\ UNCHANGED <<habrVars, mulVars, pageVars>>

\* multy_thread / multy_process: tasks = [Thread/Process(target=matmul,
\* args=(A, B)) for _ in range(njobs)]
multy_init ==
    /\ mpc \in {"multy_thread", "multy_process"}
    /\ job' = [j \in 1..Len(range(0, njobs)) |-> "created"]
    /\ mpc' = "start"
    /\ midx' = 1
    /\ UNCHANGED <<njobs_given, njobs, mmode, mulruns, finished, mlog, exitmsg>>
    /\ UNCHANGED <<habrVars, mulVars, pageVars>>

\* for t in tasks: t.start()
multy_start ==
    /\ mpc = "start"
    /\ midx <= Len(job)
    /\ job' = [job EXCEPT ![midx] = "started"]
    /\ midx' = midx + 1
    /\ UNCHANGED <<njobs_given, njobs, mmode, mpc, mulruns, finished, mlog, exitmsg>>
    /\ UNCHANGED <<habrVars, mulVars, pageVars>>

multy_start_end ==
    /\ mpc = "start"
    /\ midx > Len(job)
    /\ mpc' = "join"
    /\ midx' = 1
    /\ UNCHANGED <<njobs_given, njobs, mmode, job, mulruns, finished, mlog, exitmsg>>
    /\ UNCHANGED <<habrVars, mulVars, pageVars>>

\* a started job calls matmul(A, B)
job_run(j) ==
    /\ job[j] = "started"
    /\ job' = [job EXCEPT ![j] = "running"]
    /\ mulruns' = mulruns + 1
    /\ UNCHANGED <<njobs_given, njobs, mmode, mpc, midx, finished, mlog, exitmsg>>
    /\ UNCHANGED <<habrVars, mulVars, pageVars>>

\* the triple loop of the job's matmul is over
job_computed(j) ==
    /\ job[j] = "running"
    /\ job' = [job EXCEPT ![j] = "computed"]
    /\ mlog' = Append(mlog, <<"computed", j>>)
    /\ UNCHANGED <<njobs_given, njobs, mmode, mpc, midx, mulruns, finished, exitmsg>>
    /\ UNCHANGED <<habrVars, mulVars, pageVars>>

\* print("Finished", flush=True); return C: the job terminates
job_finish(j) ==
    /\ job[j] = "computed"
    /\ job' = [job EXCEPT ![j] = "terminated"]
    /\ finished' = finished + 1
    /\ mlog' = Append(mlog, <<"Finished", j>>)
    /\ UNCHANGED <<njobs_given, njobs, mmode, mpc, midx, mulruns, exitmsg>>
    /\ UNCHANGED <<habrVars, mulVars, pageVars>>

\* variant: join returns as soon as the job has been started
JobJoinReturnsEarly(jb, j) == jb[j] /= "created"

\* t.join() returns once the job has terminated
JobJoinReturns(jb, j) == jb[j] = "terminated"

\* for t in tasks: t.join()
multy_join ==
    /\ mpc = "join"
    /\ midx <= Len(job)
    /\ JobJoinReturns(job, midx)
    /\ job' = [job EXCEPT ![midx] = IF @ = "terminated" THEN "joined" ELSE @]
    /\ midx' = midx + 1
    /\ UNCHANGED <<njobs_given, njobs, mmode, mpc, mulruns, finished, mlog, exitmsg>>
    /\ UNCHANGED <<habrVars, mulVars, pageVars>>

multy_join_end ==
    /\ mpc = "join"
    /\ midx > Len(job)
    /\ mpc' = "done"
    /\ UNCHANGED <<njobs_given, njobs, mmode, job, midx, mulruns, finished, mlog,
                   exitmsg>>
    /\ UNCHANGED <<habrVars, mulVars, pageVars>>

NextMatmul ==
    \/ mat_main
    \/ single_thread_call
    \/ single_thread_return
    \/ multy_init
    \/ multy_start
    \/ multy_start_end
    \/ \E j \in DOMAIN job : job_run(j)
    \/ \E j \in DOMAIN job : job_computed(j)
    \/ \E j \in DOMAIN job : job_finish(j)
    \/ multy_join
    \/ multy_join_end

SpecMatmul == InitMatmul /\ [][NextMatmul]_vars

\* ---------------------------------------------------------------- get_page
MaxAttempts == 5            \* largest n_attempts explored

DefaultAttempts == 5        \* n_attempts=5
DefaultSleep    == 1        \* t_sleep=1

\* status codes the server answers with
Statuses == {OK, 404, 503}

\* get_article_title(1) has called get_habr_article(1), which has called
\* get_page(url); the loop has not begun
InitPage ==
    /\ n_attempts \in 0..MaxAttempts
    /\ attempt = 0
    /\ gp_pc = "loop"
    /\ gp_log = <<>>
    /\ gp_page = None
    /\ gp_title = None
    /\ InitHabrIdle
    /\ InitMatIdle
    /\ InitMulIdle

\* variant: the loop runs once more than n_attempts
MoreAttemptsOneExtra(a, n) == a <= n

\* for _ in range(n_attempts): another iteration is due
MoreAttempts(a, n) == a < n

\* variant: no sleep after the last attempt
SleepsAfterFailureButLast(a, n) == a + 1 < n

\* time.sleep(t_sleep) follows every response that is not 200
SleepsAfterFailure(a, n) == TRUE

\* page = requests.get(url, headers=headers); a 200 response is returned
gp_request ==
    /\ gp_pc = "loop"
    /\ MoreAttempts(attempt, n_attempts)
    /\ \E status \in Statuses :
        /\ gp_log' = Append(gp_log, <<"get", status>>)
        /\ IF status = OK
           THEN /\ gp_page' = Response(status)
                /\ gp_pc' = "returned"
                /\ UNCHANGED attempt
           ELSE /\ UNCHANGED gp_page
                /\ IF SleepsAfterFailure(attempt, n_attempts)
                   THEN /\ gp_pc' = "sleep"
                        /\ UNCHANGED attempt
                   ELSE /\ gp_pc' = "loop"
                        /\ attempt' = attempt + 1
    /\ UNCHANGED <<n_attempts, gp_title>>
    /\ UNCHANGED <<habrVars, matVars, mulVars>>

\* requests.get raises (no response): the exception leaves get_page,
\* get_habr_article and get_article_title
gp_error ==
    /\ gp_pc = "loop"
    /\ MoreAttempts(attempt, n_attempts)
    /\ gp_log' = Append(gp_log, <<"error", 0>>)
    /\ gp_pc' = "raised"
    /\ UNCHANGED <<n_attempts, attempt, gp_page, gp_title>>
    /\ UNCHANGED <<habrVars, matVars, mulVars>>

\* time.sleep(t_sleep), then the next iteration
gp_sleep ==
    /\ gp_pc = "sleep"
    /\ gp_log' = Append(gp_log, <<"sleep", DefaultSleep>>)
    /\ attempt' = attempt + 1
    /\ gp_pc' = "loop"
    /\ UNCHANGED <<n_attempts, gp_page, gp_title>>
    /\ UNCHANGED <<habrVars, matVars, mulVars>>

\* the loop is exhausted: return None
gp_exhausted ==
    /\ gp_pc = "loop"
    /\ ~MoreAttempts(attempt, n_attempts)
    /\ gp_page' = None
    /\ gp_pc' = "returned"
    /\ UNCHANGED <<n_attempts, attempt, gp_log, gp_title>>
    /\ UNCHANGED <<habrVars, matVars, mulVars>>

\* back in get_habr_article and get_article_title
gp_title_return ==
    /\ gp_pc = "returned"
    /\ gp_title' = ArticleTitle(HabrArticle(gp_page, 1))
    /\ gp_pc' = "done"
    /\ UNCHANGED <<n_attempts, attempt, gp_log, gp_page>>
    /\ UNCHANGED <<habrVars, matVars, mulVars>>

NextPage ==
    \/ gp_request
    \/ gp_error
    \/ gp_sleep
    \/ gp_exhausted
    \/ gp_title_return

SpecPage == InitPage /\ [][NextPage]_vars

\* every request is answered or fails, and every sleep ends
SpecPageFair == SpecPage /\ WF_vars(NextPage)

\* ---------------------------------------------------------------- matmul
MaxShared == 2      \* largest njobs explored with explicit matrices

\* the numbers of rows and columns explored (m, l and n of matmul)
Dims == 1..2

\* the integer-valued entries explored
Entries == 0..1

\* the m x n matrices over Entries, as lists of rows
Matrices(m, n) == [1..m -> [1..n -> Entries]]

\* C = [[0.0] * n for _ in range(m)]
Zeros(m, n) == [i \in 1..m |-> [j \in 1..n |-> 0]]

\* multy_thread(njobs) has been entered with njobs >= 1 and has built A
\* (m x l) and B (l x n)
InitShared ==
    /\ \E m \in Dims, l \in Dims, n \in Dims :
        /\ A \in Matrices(m, l)
        /\ B \in Matrices(l, n)
    /\ C = <<>>
    /\ ijk = <<>>
    /\ njobs_given = TRUE
    /\ njobs \in 1..MaxShared
    /\ mmode = "thread"
    /\ mpc = "multy_thread"
    /\ job = <<>>
    /\ midx = 0
    /\ mulruns = 0
    /\ finished = 0
    /\ mlog = <<>>
    /\ exitmsg = ""
    /\ InitHabrIdle
    /\ InitPageIdle

\* variant: every call accumulates into one matrix shared by all jobs
OwnCShared(j) == 1

\* the result matrix of job j's call: each call allocates its own C
OwnC(j) == j

\* variant: the product is assigned instead of accumulated
AccumulateAssign(c, a, b, i, j, k) ==
    [c EXCEPT ![i][j] = a[i][k] * b[k][j]]

\* C[i][j] += A[i][k] * B[k][j]
Accumulate(c, a, b, i, j, k) ==
    [c EXCEPT ![i][j] = @ + a[i][k] * b[k][j]]

\* a started job calls matmul(A, B): m, l, n are read and C is allocated
matmul_enter(j) ==
    /\ job[j] = "started"
    /\ job' = [job EXCEPT ![j] = "running"]
    /\ mulruns' = mulruns + 1
    /\ C' = (OwnC(j) :> Zeros(Len(A), Len(B[1]))) @@ C
    /\ ijk' = (j :> <<1, 1, 1>>) @@ ijk
    /\ UNCHANGED <<A, B>>
    /\ UNCHANGED <<njobs_given, njobs, mmode, mpc, midx, finished, mlog, exitmsg>>
    /\ UNCHANGED <<habrVars, pageVars>>

\* one pass through the body of the innermost loop, and the move to the
\* next k, j, i; after the last pass the loops are over
matmul_step(j) ==
    /\ job[j] = "running"
    /\ j \in DOMAIN ijk
    /\ LET i  == ijk[j][1]
           jj == ijk[j][2]
           k  == ijk[j][3]
           m  == Len(A)
           l  == Len(A[1])
           n  == Len(B[1])
       IN  /\ C' = [C EXCEPT ![OwnC(j)] = Accumulate(@, A, B, i, jj, k)]
           /\ IF k < l
              THEN /\ ijk' = [ijk EXCEPT ![j] = <<i, jj, k + 1>>]
                   /\ UNCHANGED <<job, mlog>>
              ELSE IF jj < n
              THEN /\ ijk' = [ijk EXCEPT ![j] = <<i, jj + 1, 1>>]
                   /\ UNCHANGED <<job, mlog>>
              ELSE IF i < m
              THEN /\ ijk' = [ijk EXCEPT ![j] = <<i + 1, 1, 1>>]
                   /\ UNCHANGED <<job, mlog>>
              ELSE /\ job' = [job EXCEPT ![j] = "computed"]
                   /\ mlog' = Append(mlog, <<"computed", j>>)
                   /\ UNCHANGED ijk
    /\ UNCHANGED <<A, B>>
    /\ UNCHANGED <<njobs_given, njobs, mmode, mpc, midx, mulruns, finished, exitmsg>>
    /\ UNCHANGED <<habrVars, pageVars>>

NextShared ==
    \/ multy_init
    \/ multy_start
    \/ multy_start_end
    \/ \E j \in DOMAIN job : matmul_enter(j)
    \/ \E j \in DOMAIN job : matmul_step(j)
    \/ \E j \in DOMAIN job : job_finish(j)
    \/ multy_join
    \/ multy_join_end

SpecShared == InitShared /\ [][NextShared]_vars

\* ================================================================ properties
\* the strategy has run all its tasks and `titles` is final
TasksFinished == pc \in {"print", "done"}

PoolModes == {"pool", "process_pool"}

\* the ids the program is asked to work on
TaskIds == 1..n_tasks

\* C1: for every strategy and every n_tasks = N > 0, once the strategy has
\* finished its tasks `titles` has exactly N slots, and slot i was written
\* exactly once, with the result of task i.
C1_NSlotsEachWrittenOnce ==
    (TasksFinished /\ n_tasks > 0 /\ \A i \in TaskIds : ~Raises(i)) =>
        /\ Len(titles) = n_tasks
        /\ \A i \in TaskIds :
            /\ Len(writes[i]) = 1
            /\ titles[i] = get_article_title(i)

\* the collection `single` ends with for this n_tasks and this fetch
SingleResult == [k \in 1..Len(SingleIds) |-> get_article_title(SingleIds[k])]

\* C2: for the same n_tasks and the same work function, every strategy ends
\* with the result collection that single ends with (same length, same
\* value at every index), in every interleaving.
C2_SameCollectionAsSingle ==
    TasksFinished => titles = SingleResult

\* C3: in the threads strategy the unit of task i stores its title into
\* slot i-1 of `titles` (under the mutex), so the slot of a unit that ended
\* without an error has been written once, by that unit and by no other.
C3_UnitWritesOwnSlot ==
    (mode = "threads") =>
        \A k \in DOMAIN th :
            (th[k] \in {"terminated", "joined"} /\ ~Raises(ThreadIds[k])) =>
                /\ writes[ThreadIds[k]] = <<ThreadIds[k]>>
                /\ mutex = 0

\* C4: in thread_pool and process_pool the list returned by pool.map has at
\* position k the result of the k-th submitted id, whatever the order in
\* which the workers completed.
C4_MapKeepsSubmissionOrder ==
    (mode \in PoolModes /\ TasksFinished) =>
        /\ Len(titles) = Len(PoolIds)
        /\ \A k \in 1..Len(PoolIds) : titles[k] = get_article_title(PoolIds[k])

\* a pool run whose second task completed before its first, with different
\* results, has returned its list
C4_Witness ==
    /\ mode = "pool"
    /\ pc = "done"
    /\ Len(titles) = 2
    /\ returned = <<2, 1>>
    /\ titles[1] /= titles[2]

\* C5: in the threads strategy nothing is read from `titles` or printed while
\* a thread is still running or not yet joined.
C5_PrintOnlyAfterJoin ==
    (mode = "threads" /\ (TasksFinished \/ out /= <<>>)) =>
        /\ \A k \in DOMAIN th : th[k] = "joined"
        /\ active = {}

\* a threads run of two units or more, ended out of start order, has printed
C5_Witness ==
    /\ mode = "threads"
    /\ Len(th) >= 2
    /\ Len(returned) >= 2
    /\ returned[1] = 2
    /\ out /= <<>>

\* C6: in thread_pool and process_pool at most pool_size invocations of the
\* work function are active at any instant.
C6_AtMostPoolSizeActive ==
    (mode \in PoolModes) => Cardinality(active) <= pool_size

\* n_tasks exceeds pool_size and both workers of a pool of two are inside
\* the work function
C6_Witness ==
    /\ mode \in PoolModes
    /\ n_tasks > pool_size
    /\ pool_size = 2
    /\ Cardinality(active) = pool_size

\* C7: when the fetch fails (no page) for the ids of a set S and succeeds for
\* all others, the final collection holds "NOT FOUND" at exactly the slots of
\* S and a title at every other slot.
C7_SentinelExactlyAtFailedIds ==
    (TasksFinished /\ \A i \in TaskIds : ~Raises(i)) =>
        /\ \A i \in TaskIds :
            fetch[i] = "none" => (i <= Len(titles) /\ titles[i] = NOT_FOUND)
        /\ \A s \in DOMAIN titles :
            (s \in TaskIds /\ fetch[s] = "ok") => titles[s] = <<"title", s>>

\* C8: when the work function raises for one task, under threads, thread_pool
\* and process_pool the run is not aborted, the slot of that task ends with
\* "NOT FOUND" and every other task has its result stored.
C8_RaiseIsIsolated ==
    (mode /= "single"
        /\ Cardinality({i \in TaskIds : Raises(i)}) = 1
        /\ \E k \in DOMAIN returned : Raises(returned[k])) =>
        /\ pc /= "aborted"
        /\ TasksFinished =>
            \A i \in TaskIds :
                /\ i <= Len(titles)
                /\ titles[i] = IF Raises(i) THEN NOT_FOUND ELSE get_article_title(i)

\* C9: with n_tasks <= 0 or pool_size = 0 main fails at once: no call of the
\* work function, no thread and no pool worker is started, and no strategy
\* gets to its results.
C9_InvalidConfigFailsFirst ==
    (n_tasks <= 0 \/ pool_size = 0) =>
        /\ \A i \in TaskIds : invocations[i] = 0
        /\ \A k \in DOMAIN th : th[k] = "created"
        /\ worker = <<>>
        /\ ~TasksFinished

\* C10: with --njobs given and <= 0, matmul.py's main raises
\* SystemExit("--njobs must be a positive integer.") and no job is created,
\* no matmul call is begun and no marker is printed, in either mode.
C10_NonPositiveNjobsExits ==
    (njobs_given /\ njobs <= 0) =>
        /\ mpc \in {"main", "exit"}
        /\ mpc = "exit" => exitmsg = "--njobs must be a positive integer."
        /\ job = <<>>
        /\ mulruns = 0
        /\ finished = 0

\* main has exited on --njobs 0 in thread mode
C10_Witness ==
    /\ njobs_given
    /\ njobs = 0
    /\ mmode = "thread"
    /\ mpc = "exit"
    /\ exitmsg = "--njobs must be a positive integer."

\* C11: every strategy prints exactly one line per task, for ids 1, 2, ..., N
\* in increasing order, and the line labelled i carries the result of task i.
C11_OneLinePerTaskInOrder ==
    (pc = "done" /\ n_tasks > 0 /\ \A i \in TaskIds : ~Raises(i)) =>
        /\ Len(out) = n_tasks
        /\ \A i \in TaskIds : out[i] = <<i, get_article_title(i)>>

\* C13: single with n_tasks = N calls the work function exactly once for each
\* id 1..N, in increasing order, one call at a time, and stores the result of
\* id i at index i-1.
C13_SingleRunsEveryIdInOrder ==
    (mode = "single" /\ \A i \in TaskIds : ~Raises(i)) =>
        /\ Cardinality(active) <= 1
        /\ \A k \in DOMAIN returned : returned[k] = k
        /\ TasksFinished =>
            \A i \in TaskIds :
                /\ invocations[i] = 1
                /\ i <= Len(titles)
                /\ titles[i] = get_article_title(i)

\* C15: threads with n_tasks = N creates exactly N threads, one per id 1..N,
\* starts each exactly once and joins each exactly once; nothing limits how
\* many of them run at the same time.
C15_OneThreadPerTask ==
    (mode = "threads" /\ pc \notin {"main", "threads"}) =>
        /\ Len(th) = Max(n_tasks, 0)
        /\ \A k \in DOMAIN th :
            /\ ThreadIds[k] = k
            /\ starts[k] <= 1
            /\ joins[k] <= 1
            /\ invocations[k] <= 1
            /\ (pc /= "th_start") => starts[k] = 1
            /\ TasksFinished => joins[k] = 1

\* all the units of the largest run are inside the work function together
C15_Witness ==
    /\ mode = "threads"
    /\ n_tasks = MaxTasks
    /\ active = 1..n_tasks
    /\ \A k \in DOMAIN th : th[k] = "running" /\ starts[k] = 1

\* positions of the event e in the log
Positions(log, e) == {p \in DOMAIN log : log[p] = e}

\* C16: multy_thread(njobs) and multy_process(njobs) start exactly njobs jobs;
\* each job prints "Finished" exactly once, and only after its own
\* multiplication is complete; the driver returns only after all njobs jobs
\* have terminated, with exactly njobs markers printed, in any order.
C16_OneMarkerPerJobBeforeReturn ==
    (njobs_given /\ njobs > 0) =>
        /\ \A j \in DOMAIN job :
            /\ Cardinality(Positions(mlog, <<"Finished", j>>)) <= 1
            /\ \A p \in Positions(mlog, <<"Finished", j>>) :
                \E q \in Positions(mlog, <<"computed", j>>) : q < p
        /\ mpc = "done" =>
            /\ Len(job) = njobs
            /\ mulruns = njobs
            /\ finished = njobs
            /\ \A j \in 1..njobs :
                /\ job[j] = "joined"
                /\ Cardinality(Positions(mlog, <<"Finished", j>>)) = 1

\* the driver of three thread jobs has returned; the jobs finished in the
\* reverse of their start order
C16_Witness ==
    /\ mmode = "thread"
    /\ njobs = 3
    /\ mpc = "done"
    /\ finished = 3
    /\ mlog[Len(mlog)] = <<"Finished", 1>>
    /\ \E p \in DOMAIN mlog : mlog[p] = <<"Finished", 3>> /\ p < Len(mlog) - 1

\* the program has ended, normally or by an uncaught exception
Terminated == pc \in {"done", "aborted"}

Requests == {p \in DOMAIN gp_log : gp_log[p][1] \in {"get", "error"}}
Sleeps   == {p \in DOMAIN gp_log : gp_log[p][1] = "sleep"}

\* C12: get_page ends for every sequence of responses; it issues at most
\* n_attempts requests, returns the page at the first 200 response without a
\* further request, and returns None once n_attempts responses were all
\* non-200; get_article_title then gives "NOT FOUND".
C12_GetPageBoundedRetries ==
    /\ <>(gp_pc \in {"done", "raised"})
    /\ [](Cardinality(Requests) <= n_attempts)
    /\ [](\A p \in DOMAIN gp_log : gp_log[p] = <<"get", OK>> =>
            (p = Len(gp_log) /\ gp_pc \in {"returned", "done"} /\ gp_page = Response(OK)))
    /\ [](gp_pc \in {"returned", "done"} =>
            \/ gp_page = Response(OK) /\ gp_log /= <<>> /\ gp_log[Len(gp_log)] = <<"get", OK>>
            \/ /\ gp_page = None
               /\ Cardinality(Requests) = n_attempts
               /\ \A p \in Requests : gp_log[p][1] = "get" /\ gp_log[p][2] /= OK)
    /\ [](gp_pc = "done" =>
            gp_title = IF gp_page = None THEN NOT_FOUND ELSE <<"title", 1>>)

\* the default five attempts were all refused and the title is "NOT FOUND"
C12_Witness ==
    /\ n_attempts = DefaultAttempts
    /\ gp_pc = "done"
    /\ gp_page = None
    /\ Cardinality(Requests) = DefaultAttempts
    /\ gp_title = NOT_FOUND

\* C19: get_page sleeps once after every non-200 response, the last attempt
\* included, and never after a 200 response; requests and sleeps alternate
\* strictly, and a run of n_attempts non-200 responses makes n_attempts
\* requests and n_attempts sleeps before None is returned.
C19_SleepAfterEveryFailure ==
    /\ \A p \in DOMAIN gp_log :
        /\ (p % 2 = 1) => p \in Requests
        /\ (p % 2 = 0) =>
            /\ gp_log[p] = <<"sleep", DefaultSleep>>
            /\ gp_log[p - 1][1] = "get"
            /\ gp_log[p - 1][2] /= OK
        /\ (gp_log[p][1] = "get" /\ gp_log[p][2] /= OK /\ p = Len(gp_log))
               => gp_pc = "sleep"
        /\ (gp_log[p] = <<"get", OK>>) => p = Len(gp_log)
    /\ (gp_pc \in {"returned", "done"} /\ gp_page = None) =>
        /\ Cardinality(Requests) = n_attempts
        /\ Cardinality(Sleeps) = n_attempts

\* None has come back after the default five attempts and five sleeps
C19_Witness ==
    /\ n_attempts = DefaultAttempts
    /\ gp_pc = "returned"
    /\ gp_page = None
    /\ Len(gp_log) = 2 * DefaultAttempts
    /\ gp_log[Len(gp_log)] = <<"sleep", DefaultSleep>>

\* the sum of a[i][1]*b[1][j], ..., a[i][k]*b[k][j]
RECURSIVE SumTo(_, _, _, _, _)
SumTo(a, b, i, j, k) ==
    IF k = 0 THEN 0 ELSE SumTo(a, b, i, j, k - 1) + a[i][k] * b[k][j]

\* the product of a (m x l) and b (l x n)
Product(a, b) ==
    [i \in 1..Len(a) |-> [j \in 1..Len(b[1]) |-> SumTo(a, b, i, j, Len(b))]]

Identity(m) == [i \in 1..m |-> [j \in 1..m |-> IF i = j THEN 1 ELSE 0]]

\* the loops of job j's matmul call are over
Computed(j) == job[j] \in {"computed", "terminated", "joined"}

\* C14: matmul(A, B) for an m x l matrix A and an l x n matrix B gives an
\* m x n matrix whose entry (i, j) is the sum over k of A[i][k]*B[k][j];
\* the identity times B gives B, and a zero factor gives the m x n zero matrix.
C14_MatmulIsTheProduct ==
    \A j \in DOMAIN job :
        Computed(j) =>
            LET R == C[OwnC(j)]
            IN  /\ Len(R) = Len(A)
                /\ \A i \in 1..Len(A) :
                    /\ Len(R[i]) = Len(B[1])
                    /\ \A c \in 1..Len(B[1]) : R[i][c] = SumTo(A, B, i, c, Len(A[1]))
                /\ (A = Identity(Len(A))) => R = B
                /\ (A = Zeros(Len(A), Len(A[1])) \/ B = Zeros(Len(B), Len(B[1])))
                       => R = Zeros(Len(A), Len(B[1]))

\* the 2 x 2 identity has been multiplied by a matrix that is neither zero
\* nor the identity
C14_Witness ==
    /\ A = Identity(2)
    /\ B = <<<<0, 1>>, <<1, 1>>>>
    /\ 1 \in DOMAIN job
    /\ Computed(1)
    /\ C[OwnC(1)] = B

\* C18: the matmul calls that multy_thread runs concurrently never write A or
\* B and accumulate only into their own C, so the result of every job is the
\* product of A and B in every interleaving, and A and B end unchanged.
C18_SharedOperandsUntouched ==
    /\ [][A' = A /\ B' = B]_vars
    /\ [](\A j \in DOMAIN job : \A h \in DOMAIN job :
            (j \in DOMAIN ijk /\ h \in DOMAIN ijk /\ j /= h) => OwnC(j) /= OwnC(h))
    /\ [](\A j \in DOMAIN job : Computed(j) => C[OwnC(j)] = Product(A, B))

\* the second of two jobs has its result while the first is in the middle of
\* its loops, on operands with a non-zero product
C18_Witness ==
    /\ njobs = 2
    /\ Len(job) = 2
    /\ job[1] = "running"
    /\ 1 \in DOMAIN ijk
    /\ ijk[1] \notin {<<1, 1, 1>>}
    /\ Computed(2)
    /\ C[OwnC(2)] = Product(A, B)
    /\ C[OwnC(2)] /= Zeros(Len(A), Len(B[1]))
    /\ C[OwnC(1)] /= C[OwnC(2)]

====
